---- MODULE Spec2Model ----
(***************************************************************************)
(* Model of the generic parsing engine of crates/parse/src/parser/mod.rs:  *)
(* the token cursor, the expectation tracker, the unexpected-token         *)
(* diagnostics, the separated-sequence parser and the identifier / path    *)
(* parser.                                                                 *)
(*                                                                         *)
(* A parser value is a record with the fields of struct Parser; dcx        *)
(* is the diagnostic context reached through self.sess.dcx, kept as the    *)
(* list of the diagnostics created during the call under observation.     *)
(* exp_at is a history field: the token that was current when each entry   *)
(* of expected_tokens was pushed.                                          *)
(*                                                                         *)
(* A method of the parser is an operator from a parser value to a record   *)
(* [p |-> the parser afterwards, r |-> the value returned].  A PResult is  *)
(* [tag |-> "Ok", val |-> v, err |-> 0], [tag |-> "Err", err |-> i] with i *)
(* the index of the diagnostic in dcx, or [tag |-> "Panic"] when the call  *)
(* hit panic!().                                                           *)
(***************************************************************************)
EXTENDS Integers, Sequences, FiniteSets, TLC

\* Longest token sequence given to Parser::new.
MaxLen == 3
\* Most entries the probing actions let the expectation list grow to.
MaxExpected == 2
\* Largest look-ahead distance asked for beyond the remaining length.
MaxAhead == 2
\* Longest token sequence the sequence parser is run over exhaustively.
MaxSeqLen == 3
\* Most elements of a generated comma list.
MaxElems == 2

VARIABLES
  parser,   \* the Parser value
  last,     \* the last call made on it: [op, arg, res, pre]
  frame,    \* the locals of a running parse_seq_to_before_tokens
  scopes    \* the saved flags of the open in_yul / in_contract scopes

vars == <<parser, last, frame, scopes>>

----------------------------------------------------------------------------
(* Tokens.  A TokenKind is a string; TokenKind::Ident(sym) is the symbol   *)
(* itself.  A span is the 1-based position of the token in the source, 0   *)
(* is Span::DUMMY.                                                         *)

DummySpan == 0

Token(kind, span) == [kind |-> kind, span |-> span]

TokenDUMMY == Token("Dummy", DummySpan)

TokenEOF == Token("Eof", DummySpan)

\* Symbols an identifier token can carry.
Symbols == {"x", "y", "contract", "leave"}

\* Closing delimiters, TokenKind::CloseDelim(..).
CloseDelims == {")", "]"}

\* Token::is_ident / Token::ident: keywords are identifier tokens too.
IsIdent(tok) == tok.kind \in Symbols

\* Ident::is_reserved(yul): the keyword set depends on the mode.
IsReserved(sym, yul) == IF yul THEN sym = "leave" ELSE sym = "contract"

\* Token::is_keyword(kw)
IsKeyword(tok, kw) == IsIdent(tok) /\ tok.kind = kw

\* Token::is_non_reserved_ident(yul)
IsNonReservedIdent(tok, yul) == IsIdent(tok) /\ ~IsReserved(tok.kind, yul)

\* Ident { name, span } of an identifier token.
IdentOf(tok) == [name |-> tok.kind, span |-> tok.span]

\* The tokens of a source text: kinds with their positions as spans.
Lex(kinds) == [i \in 1..Len(kinds) |-> Token(kinds[i], i)]

\* All sequences over S of length at most n.
SeqsUpTo(S, n) == UNION {[1..k -> S] : k \in 0..n}

----------------------------------------------------------------------------
(* Results.                                                                *)

Ok(v) == [tag |-> "Ok", val |-> v, err |-> 0]

Err(i) == [tag |-> "Err", val |-> FALSE, err |-> i]

Panic == [tag |-> "Panic", val |-> FALSE, err |-> 0]

Ret(p, r) == [p |-> p, r |-> r]

----------------------------------------------------------------------------
(* ExpectedToken.                                                          *)

ExpToken(kind) == [tag |-> "Token", v |-> kind]

ExpKeyword(sym) == [tag |-> "Keyword", v |-> sym]

ExpCategory(c) == [tag |-> c, v |-> ""]

\* ExpectedToken::eq_kind
EqKind(e, kind) == e.tag = "Token" /\ e.v = kind

----------------------------------------------------------------------------
(* Diagnostics: dcx().err(msg).span(span) creates a live diagnostic; emit  *)
(* and cancel are its terminal operations.                                 *)

\* self.dcx().err(msg).span(span): returns the index of the new diagnostic.
NewDiag(p, msg, span) ==
  [p EXCEPT !.dcx = Append(@, [msg |-> msg, span |-> span,
                                children |-> <<>>, state |-> "live"])]

\* DiagnosticBuilder::emit
Emit(p, i) == [p EXCEPT !.dcx[i].state = "emitted"]

\* DiagnosticBuilder::cancel
Cancel(p, i) == [p EXCEPT !.dcx[i].state = "cancelled"]

\* DiagnosticBuilder::span_help: one more child on the diagnostic.
SpanHelp(p, i, note) == [p EXCEPT !.dcx[i].children = Append(@, note)]

Emitted(p) == {i \in 1..Len(p.dcx) : p.dcx[i].state = "emitted"}

----------------------------------------------------------------------------
(* Token cursor.                                                           *)

inlined_bump_with_keep(p, next_token) ==
  [p EXCEPT !.prev_token = p.token, !.token = next_token]

\* inlined_bump_with: shift current to previous, clear the expectations.
inlined_bump_with(p, next_token) ==
  [p EXCEPT !.prev_token = p.token,
            !.token = next_token,
            !.expected_tokens = <<>>,
            !.exp_at = <<>>]

\* A variant of bump that leaves the span of the next token as it is.
bump_untweaked(p) ==
  LET next == IF p.tokens = <<>> THEN TokenEOF ELSE Head(p.tokens)
      rest == IF p.tokens = <<>> THEN <<>> ELSE Tail(p.tokens)
  IN inlined_bump_with([p EXCEPT !.tokens = rest], next)

\* bump: the next token, or EOF; a dummy span takes the current token's.
bump(p) ==
  LET next == IF p.tokens = <<>> THEN TokenEOF ELSE Head(p.tokens)
      rest == IF p.tokens = <<>> THEN <<>> ELSE Tail(p.tokens)
      next2 == IF next.span = DummySpan
               THEN [next EXCEPT !.span = p.token.span]
               ELSE next
  IN inlined_bump_with([p EXCEPT !.tokens = rest], next2)

\* bump_with
bump_with(p, next) == inlined_bump_with(p, next)

\* A variant of Parser::new without the initial bump.
new_unbumped(toks) ==
  [token |-> TokenDUMMY,
   prev_token |-> TokenDUMMY,
   expected_tokens |-> <<>>,
   exp_at |-> <<>>,
   last_unexpected_token_span |-> <<>>,
   in_yul |-> FALSE,
   in_contract |-> FALSE,
   tokens |-> toks,
   dcx |-> <<>>]

\* Parser::new: both tokens are the dummy until the one initial bump.
new(toks) ==
  bump([token |-> TokenDUMMY,
        prev_token |-> TokenDUMMY,
        expected_tokens |-> <<>>,
        exp_at |-> <<>>,
        last_unexpected_token_span |-> <<>>,
        in_yul |-> FALSE,
        in_contract |-> FALSE,
        tokens |-> toks,
        dcx |-> <<>>])

\* A variant of look_ahead that indexes the remaining tokens by dist.
look_ahead_from_zero(p, dist) ==
  IF dist = 0 THEN p.token
  ELSE IF dist < Len(p.tokens) THEN p.tokens[dist + 1] ELSE TokenEOF

\* look_ahead(dist): Option is modelled by the token itself.
look_ahead(p, dist) ==
  IF dist = 0 THEN p.token
  ELSE IF dist - 1 < Len(p.tokens) THEN p.tokens[dist] ELSE TokenEOF

----------------------------------------------------------------------------
(* Expectation tracker.                                                    *)

\* self.expected_tokens.push(e)
Push(p, e) ==
  [p EXCEPT !.expected_tokens = Append(@, e), !.exp_at = Append(@, p.token)]

check_noexpect(p, tok) == p.token.kind = tok

check_always_push(p, tok) == Ret(Push(p, ExpToken(tok)), check_noexpect(p, tok))

\* check: register the kind on a mismatch only.
check(p, tok) ==
  LET is_present == check_noexpect(p, tok)
  IN IF ~is_present THEN Ret(Push(p, ExpToken(tok)), is_present)
     ELSE Ret(p, is_present)

\* eat_noexpect
eat_noexpect(p, tok) ==
  IF check_noexpect(p, tok) THEN Ret(bump(p), TRUE) ELSE Ret(p, FALSE)

\* eat, after its check returned c.
eat_checked(c) == IF c.r THEN Ret(bump(c.p), TRUE) ELSE c

\* eat
eat(p, tok) == eat_checked(check(p, tok))

check_keyword_on_mismatch(p, kw) ==
  IF IsKeyword(p.token, kw) THEN Ret(p, TRUE)
  ELSE Ret(Push(p, ExpKeyword(kw)), FALSE)

\* check_keyword: the expectation is pushed first, whatever the token is.
check_keyword(p, kw) == Ret(Push(p, ExpKeyword(kw)), IsKeyword(p.token, kw))

\* eat_keyword
eat_keyword(p, kw) == eat_checked(check_keyword(p, kw))

\* check_or_expected
check_or_expected(p, ok, t) == IF ~ok THEN Ret(Push(p, t), ok) ELSE Ret(p, ok)

check_ident(p) == check_or_expected(p, IsIdent(p.token), ExpCategory("Ident"))

check_any_ident(p) ==
  check_or_expected(p, IsNonReservedIdent(p.token, p.in_yul), ExpCategory("Ident"))

check_path(p) == check_or_expected(p, IsIdent(p.token), ExpCategory("Path"))

----------------------------------------------------------------------------
(* Rendering of an ExpectedToken (its Display), used to sort the candidate *)
(* list.  The back quotes Display puts around a token or a keyword are     *)
(* written as apostrophes here.  RenderOrder lists every rendering the     *)
(* model can produce in the byte order Rust's String comparison gives the  *)
(* original texts (a back quote sorts before every lower-case letter).     *)

\* impl Display for ExpectedToken
Render(e) ==
  CASE e.tag \in {"Token", "Keyword"} -> "'" \o e.v \o "'"
    [] e.tag = "StrLit" -> "string literal"
    [] e.tag = "VersionNumber" -> "'*', 'X', 'x', decimal integer literal"
    [] e.tag = "Lit" -> "literal"
    [] e.tag = "Ident" -> "identifier"
    [] e.tag = "Path" -> "path"
    [] e.tag = "ElementaryType" -> "elementary type name"

RenderOrder ==
  << "'('", "')'", "'*', 'X', 'x', decimal integer literal", "','", "'.'",
     "':'", "';'", "'Dummy'", "'Eof'", "']'", "'contract'", "'leave'",
     "'x'", "'y'", "elementary type name", "identifier", "literal", "path",
     "string literal" >>

\* The place of a rendering in the String order.
RenderRank(e) == CHOOSE i \in 1..Len(RenderOrder) : RenderOrder[i] = Render(e)

\* Insert e into the sorted list s after every entry that is not greater.
RECURSIVE InsertSorted(_, _)
InsertSorted(s, e) ==
  IF s = <<>> THEN <<e>>
  ELSE IF RenderRank(Head(s)) <= RenderRank(e)
       THEN <<Head(s)>> \o InsertSorted(Tail(s), e)
       ELSE <<e>> \o s

\* expected.sort_by_cached_key(ToString::to_string): a stable sort.
RECURSIVE SortByRender(_)
SortByRender(s) ==
  IF s = <<>> THEN <<>>
  ELSE InsertSorted(SortByRender(SubSeq(s, 1, Len(s) - 1)), s[Len(s)])

\* expected.dedup(): drop an entry equal to the one before it.
RECURSIVE Dedup(_)
Dedup(s) ==
  IF Len(s) <= 1 THEN s
  ELSE LET d == Dedup(SubSeq(s, 1, Len(s) - 1))
       IN IF d[Len(d)] = s[Len(s)] THEN d ELSE Append(d, s[Len(s)])

\* .map(ExpectedToken::Token) over a list of token kinds.
ExpTokens(kinds) == [i \in 1..Len(kinds) |-> ExpToken(kinds[i])]

\* slice.contains(x)
Contains(s, x) == \E i \in 1..Len(s) : s[i] = x

----------------------------------------------------------------------------
(* Unexpected-token failures.                                              *)

\* The closure is_ident_eq_keyword of expected_one_of_not_found.
is_ident_eq_keyword(found, expected) ==
  found \in Symbols /\ expected.tag = "Keyword" /\ found = expected.v

\* The filter closure of expected_one_of_not_found.
KeepExpected(p, e) ==
  IF ~EqKind(e, p.token.kind)
  THEN IF ~is_ident_eq_keyword(p.token.kind, e)
       THEN ~(e.tag = "Token" /\ e.v = p.token.kind)
       ELSE FALSE
  ELSE FALSE

\* The candidate list of expected_one_of_not_found: merged, filtered,
\* sorted by rendering, adjacent duplicates dropped.
ExpectedList(p, edible, inedible) ==
  LET Keep(e) == KeepExpected(p, e)
  IN Dedup(SortByRender(SelectSeq(
       ExpTokens(edible \o inedible) \o p.expected_tokens, Keep)))

\* unexpected_error_with: the span is not recorded on this path.
unexpected_error_with(p, t) ==
  LET q == NewDiag(p, [what |-> "expected", exp |-> <<ExpToken(t)>>,
                       found |-> p.token.kind], p.token.span)
  IN Ret(q, Err(Len(q.dcx)))

\* expected_one_of_not_found: records the span, returns the diagnostic.
expected_one_of_not_found(p, edible, inedible) ==
  LET expected == ExpectedList(p, edible, inedible)
      what == CASE Len(expected) = 0 -> "unexpected"
                [] Len(expected) = 1 -> "expected"
                [] OTHER -> "expected one of"
      q == NewDiag([p EXCEPT !.last_unexpected_token_span = <<p.token.span>>],
                   [what |-> what, exp |-> expected, found |-> p.token.kind],
                   p.token.span)
  IN Ret(q, Err(Len(q.dcx)))

\* expect_one_of
expect_one_of(p, edible, inedible) ==
  IF Contains(edible, p.token.kind) THEN Ret(bump(p), Ok(FALSE))
  ELSE IF Contains(inedible, p.token.kind) THEN Ret(p, Ok(FALSE))
  ELSE IF p.token.kind # "Eof"
          /\ p.last_unexpected_token_span = <<p.token.span>>
       THEN Ret(p, Panic)
       ELSE expected_one_of_not_found(p, edible, inedible)

\* unexpected / unexpected_error: expect_one_of(&[], &[]) cannot return Ok.
unexpected(p) == expect_one_of(p, <<>>, <<>>)

\* expect
expect(p, tok) ==
  IF p.expected_tokens = <<>>
  THEN IF check_noexpect(p, tok) THEN Ret(bump(p), Ok(FALSE))
       ELSE unexpected_error_with(p, tok)
  ELSE expect_one_of(p, <<tok>>, <<>>)

\* expect_keyword, after its eat_keyword returned e.
expect_keyword_eaten(e) == IF ~e.r THEN unexpected(e.p) ELSE Ret(e.p, Ok(TRUE))

\* expect_keyword
expect_keyword(p, kw) == expect_keyword_eaten(eat_keyword(p, kw))

\* expect_any: any() stops at the first terminator that matches.
RECURSIVE expect_any(_, _)
expect_any_checked(c, rest) == IF c.r THEN c ELSE expect_any(c.p, rest)

expect_any(p, kets) ==
  IF kets = <<>> THEN Ret(p, FALSE)
  ELSE expect_any_checked(check(p, Head(kets)), Tail(kets))

----------------------------------------------------------------------------
(* Identifier and path parser.                                             *)

RECURSIVE ident_or_err(_, _), expected_ident_found(_, _)

\* ident_or_err: does not advance on an identifier.
ident_or_err(p, recover) ==
  IF IsIdent(p.token) THEN Ret(p, Ok(IdentOf(p.token)))
  ELSE expected_ident_found(p, recover)

\* expected_ident_found, lines 820-838: err is the diagnostic created, p the
\* parser after the retry (or unchanged), recovered_ident the Option as a
\* list of at most one identifier.
expected_ident_found_end(p, err, suggest_remove_comma, recover, recovered_ident) ==
  IF recover /\ recovered_ident # <<>>
  THEN Ret(Emit(SpanHelp(p, err, "remove this comma"), err),
           Ok(recovered_ident[1]))
  ELSE IF suggest_remove_comma
       THEN Ret(SpanHelp(p, err, "remove this comma"), Err(err))
       ELSE Ret(p, Err(err))

\* Lines 826-827: bump, then ident_or_err(false).ok() gave retry.
expected_ident_found_retried(err, retry) ==
  expected_ident_found_end(retry.p, err, TRUE, TRUE,
    IF retry.r.tag = "Ok" THEN <<retry.r.val>> ELSE <<>>)

\* A variant of expected_ident_found without the extraneous-comma retry.
expected_ident_found_new_plain(p1, recover) ==
  expected_ident_found_end(p1, Len(p1.dcx), FALSE, recover, <<>>)

\* expected_ident_found, with p1 the parser holding the new diagnostic.
expected_ident_found_new(p1, recover) ==
  IF p1.token.kind = "," /\ IsIdent(look_ahead(p1, 1))
  THEN IF recover
       THEN expected_ident_found_retried(Len(p1.dcx), ident_or_err(bump(p1), FALSE))
       ELSE expected_ident_found_end(p1, Len(p1.dcx), TRUE, FALSE, <<>>)
  ELSE expected_ident_found_end(p1, Len(p1.dcx), FALSE, recover, <<>>)

\* expected_ident_found
expected_ident_found(p, recover) ==
  expected_ident_found_new(
    NewDiag(p, [what |-> "expected identifier", exp |-> <<>>,
                found |-> p.token.kind], p.token.span),
    recover)

\* expected_ident_found_err
expected_ident_found_err(p) == expected_ident_found(p, FALSE)

\* A variant of lines 794-799 that fails on a reserved identifier whatever
\* recover is.
parse_ident_common_reserved_strict(i, e, recover) == e

\* A variant of lines 794-800 that advances past a reserved identifier
\* before it looks at recover.
parse_ident_common_reserved_late(i, e, recover) ==
  IF recover THEN Ret(bump(Emit(e.p, e.r.err)), i.r) ELSE Ret(bump(e.p), e.r)

\* parse_ident_common, lines 794-799: the identifier is reserved and e is
\* what expected_ident_found_err returned.
parse_ident_common_reserved(i, e, recover) ==
  IF recover THEN Ret(bump(Emit(e.p, e.r.err)), i.r) ELSE e

\* parse_ident_common, after ident_or_err returned i.
parse_ident_common_got(i, recover) ==
  IF i.r.tag # "Ok" THEN i
  ELSE IF IsReserved(i.r.val.name, i.p.in_yul)
       THEN parse_ident_common_reserved(i, expected_ident_found_err(i.p), recover)
       ELSE Ret(bump(i.p), i.r)

\* parse_ident_common
parse_ident_common(p, recover) ==
  parse_ident_common_got(ident_or_err(p, recover), recover)

\* parse_ident
parse_ident(p) == parse_ident_common(p, TRUE)

\* parse_ident_any, after ident_or_err returned i.
parse_ident_any_got(i) == IF i.r.tag # "Ok" THEN i ELSE Ret(bump(i.p), i.r)

\* parse_ident_any: no reserved-word test.
parse_ident_any(p) == parse_ident_any_got(ident_or_err(p, TRUE))

\* The identifier strategy f of parse_path_with_f, by name.
IdentStrategy(f, p) ==
  IF f = "parse_ident" THEN parse_ident(p) ELSE parse_ident_any(p)

\* The loop: while self.eat(&TokenKind::Dot) { path.push(f(self)?) }
RECURSIVE PathLoop(_, _, _)
\* A variant of the loop body that parses a segment and does not push it.
PathLoopPushed_drop(s, path, f) ==
  IF s.r.tag # "Ok" THEN s ELSE PathLoop(s.p, path, f)

PathLoopPushed(s, path, f) ==
  IF s.r.tag # "Ok" THEN s ELSE PathLoop(s.p, Append(path, s.r.val), f)

PathLoopEaten(d, path, f) ==
  IF ~d.r THEN Ret(d.p, Ok(path))
  ELSE PathLoopPushed(IdentStrategy(f, d.p), path, f)

PathLoop(p, path, f) == PathLoopEaten(eat(p, "."), path, f)

\* parse_path_with_f: a path is the list of its segments.
parse_path_with_f(p, first, f) ==
  IF ~check_noexpect(p, ".") THEN Ret(p, Ok(<<first>>))
  ELSE PathLoop(p, <<first>>, f)

\* parse_path / parse_path_any, after the first identifier was parsed.
parse_path_first(first, f) ==
  IF first.r.tag # "Ok" THEN first
  ELSE parse_path_with_f(first.p, first.r.val, f)

\* parse_path
parse_path(p) == parse_path_first(parse_ident(p), "parse_ident")

\* parse_path_any
parse_path_any(p) == parse_path_first(parse_ident_any(p), "parse_ident_any")

----------------------------------------------------------------------------
(* Sequence parser.  The wrappers only fix the arguments of                *)
(* parse_seq_to_before_tokens, so each is the description of the call it   *)
(* ends in: the opening token to expect first (bra), the terminators, the  *)
(* separator policy, the element parser, and whether the terminator is     *)
(* eaten afterwards (to_end).  The loop itself runs one pass per step.     *)

\* SeqSep::trailing_enforced
trailing_enforced(t) ==
  [sep |-> <<t>>, trailing_sep_required |-> TRUE, trailing_sep_allowed |-> TRUE]

\* SeqSep::trailing_allowed
trailing_allowed(t) ==
  [sep |-> <<t>>, trailing_sep_required |-> FALSE, trailing_sep_allowed |-> TRUE]

\* SeqSep::trailing_disallowed
trailing_disallowed(t) ==
  [sep |-> <<t>>, trailing_sep_required |-> FALSE, trailing_sep_allowed |-> FALSE]

\* SeqSep::none
none ==
  [sep |-> <<>>, trailing_sep_required |-> FALSE, trailing_sep_allowed |-> FALSE]

\* TokenKind::OpenDelim(delim)
OpenDelim(delim) == IF delim = "Parenthesis" THEN "(" ELSE "["

\* TokenKind::CloseDelim(delim)
CloseDelim(delim) == IF delim = "Parenthesis" THEN ")" ELSE "]"

\* parse_seq_to_before_tokens, as a call.
parse_seq_to_before_tokens(kets, sep, f) ==
  [entry |-> "parse_seq_to_before_tokens", bra |-> <<>>, kets |-> kets,
   sep |-> sep, f |-> f, to_end |-> FALSE]

\* parse_seq_to_before_end
parse_seq_to_before_end(ket, sep, f) ==
  [parse_seq_to_before_tokens(<<ket>>, sep, f)
     EXCEPT !.entry = "parse_seq_to_before_end"]

\* parse_seq_to_end: the same inner call, then the terminator is eaten.
parse_seq_to_end(ket, sep, f) ==
  [parse_seq_to_before_end(ket, sep, f)
     EXCEPT !.entry = "parse_seq_to_end", !.to_end = TRUE]

\* parse_unspanned_seq: expect(bra) first.
parse_unspanned_seq(bra, ket, sep, f) ==
  [parse_seq_to_end(ket, sep, f)
     EXCEPT !.entry = "parse_unspanned_seq", !.bra = <<bra>>]

\* parse_delim_seq
parse_delim_seq(delim, sep, f) ==
  [parse_unspanned_seq(OpenDelim(delim), CloseDelim(delim), sep, f)
     EXCEPT !.entry = "parse_delim_seq"]

\* parse_delim_comma_seq
parse_delim_comma_seq(delim, f) ==
  [parse_delim_seq(delim, trailing_disallowed(","), f)
     EXCEPT !.entry = "parse_delim_comma_seq"]

\* parse_paren_comma_seq
parse_paren_comma_seq(f) ==
  [parse_delim_comma_seq("Parenthesis", f)
     EXCEPT !.entry = "parse_paren_comma_seq"]

\* An element parser of a grammar production that takes one token x and
\* rejects any other with unexpected(): if p.eat(x) { Ok } else { p.unexpected() },
\* after its eat returned e.
eat_or_unexpected(e) == IF e.r THEN Ret(e.p, Ok(TRUE)) ELSE unexpected(e.p)

\* The element parser f of a call, by name: the identifier and path parsers,
\* and the element parsers that take the one token x through expect,
\* expect_one_of or eat and unexpected.
ElemParse(f, p) ==
  CASE f = "parse_ident" -> parse_ident(p)
    [] f = "parse_ident_any" -> parse_ident_any(p)
    [] f = "parse_path" -> parse_path(p)
    [] f = "parse_ident_common" -> parse_ident_common(p, FALSE)
    [] f = "expect" -> expect(p, "x")
    [] f = "expect_one_of" -> expect_one_of(p, <<"x">>, <<>>)
    [] f = "eat_or_unexpected" -> eat_or_unexpected(eat(p, "x"))

\* The locals of parse_seq_to_before_tokens when the loop is entered.
\* exit and fcalls are history: how the loop was left, and the span of the
\* current token at each invocation of the element parser.
EnterLoop(call) ==
  [pc |-> "loop", call |-> call,
   first |-> TRUE, recovered |-> FALSE, trailing |-> FALSE, v |-> <<>>,
   exit |-> "", err |-> 0, fcalls |-> <<>>, passes |-> 0]

\* The loop is left: by a break or a false condition (pc exit), or by a
\* return of Err or a panic (pc fail).
Leave(p, fr, how) == [p |-> p, fr |-> [fr EXCEPT !.pc = "exit", !.exit = how]]

Fail(p, fr, how, e) ==
  [p |-> p, fr |-> [fr EXCEPT !.pc = "fail", !.exit = how, !.err = e]]

Again(p, fr) == [p |-> p, fr |-> fr]

Called_f(fr, p) == [fr EXCEPT !.fcalls = Append(@, p.token.span)]

\* A variant of lines 644-645 that inserts the element at the front of v.
SeqElementParsed_prepend(fr, e) ==
  IF e.r.tag = "Panic" THEN Fail(e.p, fr, "panic", 0)
  ELSE IF e.r.tag = "Err" THEN Fail(e.p, fr, "element", e.r.err)
  ELSE Again(e.p, [fr EXCEPT !.v = <<e.r.val>> \o @])

\* A variant of lines 644-645 that emits the element's failure before
\* returning it.
SeqElementParsed_emit(fr, e) ==
  IF e.r.tag = "Panic" THEN Fail(e.p, fr, "panic", 0)
  ELSE IF e.r.tag = "Err" THEN Fail(Emit(e.p, e.r.err), fr, "element", e.r.err)
  ELSE Again(e.p, [fr EXCEPT !.v = Append(@, e.r.val)])

\* A variant of lines 644-645 that drops the element's failure and goes
\* round the loop again.
SeqElementParsed_retry(fr, e) ==
  IF e.r.tag = "Panic" THEN Fail(e.p, fr, "panic", 0)
  ELSE IF e.r.tag = "Err" THEN Again(Cancel(e.p, e.r.err), fr)
  ELSE Again(e.p, [fr EXCEPT !.v = Append(@, e.r.val)])

\* Lines 644-645: let t = f(self)?; v.push(t); with e what f returned.
SeqElementParsed(fr, e) ==
  IF e.r.tag = "Panic" THEN Fail(e.p, fr, "panic", 0)
  ELSE IF e.r.tag = "Err" THEN Fail(e.p, fr, "element", e.r.err)
  ELSE Again(e.p, [fr EXCEPT !.v = Append(@, e.r.val)])

\* Lines 639-642, with t what the trailing-separator test found.
SeqElementTrailing(t, fr) ==
  IF t.r THEN Leave(t.p, [fr EXCEPT !.trailing = TRUE], "trailing")
  ELSE SeqElementParsed(Called_f(fr, t.p), ElemParse(fr.call.f, t.p))

\* A variant of lines 639-645 without the trailing-separator test.
SeqElement_no_trailing(p, fr) == SeqElementTrailing(Ret(p, FALSE), fr)

\* A variant of lines 639-645 that makes the trailing-separator test under
\* every policy.
SeqElement_lenient(p, fr) ==
  SeqElementTrailing(expect_any(p, fr.call.kets), fr)

\* A variant of lines 639-645 that records a trailing separator whenever the
\* policy allows one, without testing for a terminator.
SeqElement_untested(p, fr) ==
  SeqElementTrailing(Ret(p, fr.call.sep.trailing_sep_allowed), fr)

\* Lines 639-645: the trailing-separator test, then one element.
SeqElement(p, fr) ==
  SeqElementTrailing(
    IF fr.call.sep.trailing_sep_allowed THEN expect_any(p, fr.call.kets)
    ELSE Ret(p, FALSE),
    fr)

\* Lines 612-631: the speculative parse failed with e; folded is the parser
\* with e's children pushed onto expect_err and e cancelled.
SeqSpeculationFailed(folded, fr, expect_err) ==
  IF folded.token.kind = ":" THEN Fail(folded, fr, "colon", expect_err)
  ELSE IF fr.call.kets = <<")">> THEN Fail(folded, fr, "paren", expect_err)
  ELSE Leave(Emit(folded, expect_err), fr, "emitted")

\* A variant of lines 590-633 that drops the separator diagnostic when the
\* speculative parse succeeds.
SeqSpeculated_silent(fr, expect_err, e) ==
  IF e.r.tag = "Panic" THEN Fail(e.p, fr, "panic", 0)
  ELSE IF e.r.tag = "Ok"
       THEN Again(Cancel(e.p, expect_err), [fr EXCEPT !.v = Append(@, e.r.val)])
       ELSE SeqSpeculationFailed(
              Cancel([e.p EXCEPT !.dcx[expect_err].children =
                        @ \o e.p.dcx[e.r.err].children], e.r.err),
              fr, expect_err)

\* A variant of lines 590-633 that forgets the failure of the speculative
\* parse without cancelling it.
SeqSpeculated_leak(fr, expect_err, e) ==
  IF e.r.tag = "Panic" THEN Fail(e.p, fr, "panic", 0)
  ELSE IF e.r.tag = "Ok"
       THEN Again(Emit(SpanHelp(e.p, expect_err,
                                "missing " \o fr.call.sep.sep[1]), expect_err),
                  [fr EXCEPT !.v = Append(@, e.r.val)])
       ELSE SeqSpeculationFailed(
              [e.p EXCEPT !.dcx[expect_err].children =
                 @ \o e.p.dcx[e.r.err].children],
              fr, expect_err)

\* A variant of lines 590-633 that cancels the failure of the speculative
\* parse without taking over its children.
SeqSpeculated_nofold(fr, expect_err, e) ==
  IF e.r.tag = "Panic" THEN Fail(e.p, fr, "panic", 0)
  ELSE IF e.r.tag = "Ok"
       THEN Again(Emit(SpanHelp(e.p, expect_err,
                                "missing " \o fr.call.sep.sep[1]), expect_err),
                  [fr EXCEPT !.v = Append(@, e.r.val)])
       ELSE SeqSpeculationFailed(Cancel(e.p, e.r.err), fr, expect_err)

\* Lines 590-633: match f(self), with e what f returned.
SeqSpeculated(fr, expect_err, e) ==
  IF e.r.tag = "Panic" THEN Fail(e.p, fr, "panic", 0)
  ELSE IF e.r.tag = "Ok"
       THEN Again(Emit(SpanHelp(e.p, expect_err,
                                "missing " \o fr.call.sep.sep[1]), expect_err),
                  [fr EXCEPT !.v = Append(@, e.r.val)])
       ELSE SeqSpeculationFailed(
              Cancel([e.p EXCEPT !.dcx[expect_err].children =
                        @ \o e.p.dcx[e.r.err].children], e.r.err),
              fr, expect_err)

\* Lines 582-634: expect(sep) failed with the diagnostic expect_err.
SeqMissingSep(p, fr, expect_err) ==
  IF fr.call.sep.trailing_sep_required
  THEN Fail(p, fr, "separator", expect_err)
  ELSE SeqSpeculated(Called_f(fr, p), expect_err, ElemParse(fr.call.f, p))

\* Lines 575-635: match self.expect(tk), with e what expect returned.
SeqSeparatorExpected(fr, e) ==
  IF e.r.tag = "Panic" THEN Fail(e.p, fr, "panic", 0)
  ELSE IF e.r.tag = "Ok"
       THEN IF e.r.val
            THEN Leave(e.p, [fr EXCEPT !.recovered = TRUE], "recovered")
            ELSE SeqElement(e.p, fr)
       ELSE SeqMissingSep(e.p, fr, e.r.err)

\* Lines 569-637: the separator before every element but the first.
SeqSeparator(p, fr) ==
  IF fr.call.sep.sep = <<>> THEN SeqElement(p, fr)
  ELSE IF fr.first THEN SeqElement(p, [fr EXCEPT !.first = FALSE])
  ELSE SeqSeparatorExpected(fr, expect(p, fr.call.sep.sep[1]))

\* A variant of lines 564-567 without the bailout on a closing delimiter or
\* end-of-input.
SeqPassChecked_nobail(c, fr) ==
  IF c.r THEN Leave(c.p, fr, "terminator")
  ELSE SeqSeparator(c.p, fr)

\* Lines 564-567, with c what expect_any(kets) returned.
SeqPassChecked(c, fr) ==
  IF c.r THEN Leave(c.p, fr, "terminator")
  ELSE IF c.p.token.kind \in CloseDelims \cup {"Eof"}
       THEN Leave(c.p, fr, "bailout")
       ELSE SeqSeparator(c.p, fr)

\* One pass of the loop: while !self.expect_any(kets) { .. }, lines 564-646.
SeqPass(p, fr) ==
  SeqPassChecked(expect_any(p, fr.call.kets), [fr EXCEPT !.passes = @ + 1])

\* parse_seq_to_end, lines 525-528.
SeqToEnd(p, fr) ==
  IF ~fr.recovered THEN (eat(p, fr.call.kets[1])).p ELSE p

\* Line 648 and the wrappers' tails: parse_seq_to_end eats the terminator
\* unless the inner call reported recovered (lines 524-528).
SeqResult(p, fr) ==
  IF fr.pc = "fail"
  THEN Ret(p, IF fr.exit = "panic" THEN Panic ELSE Err(fr.err))
  ELSE IF fr.call.to_end
       THEN Ret(SeqToEnd(p, fr), Ok([v |-> fr.v, trailing |-> fr.trailing]))
       ELSE Ret(p, Ok([v |-> fr.v, trailing |-> fr.trailing,
                       recovered |-> fr.recovered]))

----------------------------------------------------------------------------
(* The cursor and tracker API driven by a caller: any call, in any order,  *)
(* on a parser built from any short token sequence.  Each action is one    *)
(* call; last keeps the call, its argument, what it returned and the       *)
(* parser it was made on.  The diagnostics of earlier calls are dropped    *)
(* from dcx when a call starts.                                            *)

\* Token kinds of the sources the cursor is driven over.
CursorKinds == {"x", "contract", ","}

\* Token kinds the caller probes for or expects.
ProbeKinds == {",", "contract"}

\* Keywords the caller probes for.
ProbeKeywords == {"contract"}

\* No sequence parse is running.
NoFrame == [pc |-> "idle"]

\* The record of a call; panic: the call ended in panic!().
Called(op, arg, out, pre, panic) ==
  [op |-> op, arg |-> arg, res |-> out.r, pre |-> pre, panic |-> panic]

\* The parser a call starts on.
Fresh == [parser EXCEPT !.dcx = <<>>]

\* The caller is between two calls, and no call has panicked.
Running == last.op = "idle" /\ frame.pc = "idle"

\* A call that may only add to the expectation list has room to.
Room == Len(parser.expected_tokens) < MaxExpected

\* A call that returns a plain value.
Does(op, arg, out) ==
  /\ parser' = out.p
  /\ last' = Called(op, arg, out, Fresh, FALSE)
  /\ UNCHANGED <<frame, scopes>>

\* A call that returns a PResult.
DoesP(op, arg, out) ==
  /\ parser' = out.p
  /\ last' = Called(op, arg, out, Fresh, out.r.tag = "Panic")
  /\ UNCHANGED <<frame, scopes>>

InitCursor ==
  /\ \E kinds \in SeqsUpTo(CursorKinds, MaxLen) :
       /\ parser = new(Lex(kinds))
       /\ last = [op |-> "new", arg |-> kinds, res |-> TRUE,
                  pre |-> new(Lex(kinds)), panic |-> FALSE]
  /\ frame = NoFrame
  /\ scopes = <<>>

DoBump == Running /\ Does("bump", "", Ret(bump(Fresh), TRUE))

DoBumpWith ==
  /\ Running
  /\ \E k \in {"."} :
       LET next == Token(k, parser.token.span)
       IN Does("bump_with", next, Ret(bump_with(Fresh, next), TRUE))

DoLookAhead ==
  /\ Running
  /\ \E dist \in 0..(Len(parser.tokens) + MaxAhead) :
       Does("look_ahead", dist, Ret(Fresh, look_ahead(Fresh, dist)))

DoCheck ==
  /\ Running /\ Room
  /\ \E k \in ProbeKinds : Does("check", k, check(Fresh, k))

DoEat ==
  /\ Running /\ Room
  /\ \E k \in ProbeKinds : Does("eat", k, eat(Fresh, k))

DoEatNoexpect ==
  /\ Running
  /\ \E k \in ProbeKinds : Does("eat_noexpect", k, eat_noexpect(Fresh, k))

DoCheckKeyword ==
  /\ Running /\ Room
  /\ \E kw \in ProbeKeywords : Does("check_keyword", kw, check_keyword(Fresh, kw))

DoEatKeyword ==
  /\ Running /\ Room
  /\ \E kw \in ProbeKeywords : Does("eat_keyword", kw, eat_keyword(Fresh, kw))

DoExpect ==
  /\ Running
  /\ \E k \in ProbeKinds : DoesP("expect", k, expect(Fresh, k))

DoExpectOneOf ==
  /\ Running
  /\ \E edible \in {<<>>, <<",">>}, inedible \in {<<>>, <<"contract">>} :
       DoesP("expect_one_of", <<edible, inedible>>,
            expect_one_of(Fresh, edible, inedible))

DoUnexpected == Running /\ DoesP("unexpected", "", unexpected(Fresh))

DoExpectKeyword ==
  /\ Running /\ Room
  /\ \E kw \in ProbeKeywords : DoesP("expect_keyword", kw, expect_keyword(Fresh, kw))

\* The caller takes the returned value and goes on; after a panic it does not.
Return ==
  /\ last.op # "idle" /\ ~last.panic /\ frame.pc = "idle"
  /\ last' = [op |-> "idle", arg |-> "", res |-> FALSE, pre |-> parser,
              panic |-> FALSE]
  /\ UNCHANGED <<parser, frame, scopes>>

NextCursor ==
  \/ Return
  \/ DoBump
  \/ DoBumpWith
  \/ DoLookAhead
  \/ DoCheck
  \/ DoEat
  \/ DoEatNoexpect
  \/ DoCheckKeyword
  \/ DoEatKeyword
  \/ DoExpect
  \/ DoExpectOneOf
  \/ DoUnexpected
  \/ DoExpectKeyword

Spec == InitCursor /\ [][NextCursor]_vars

----------------------------------------------------------------------------
(* The sequence parser called on a new parser: any entry point, separator  *)
(* policy, terminator set and element parser, over any short token         *)
(* sequence and over the comma lists of ListInputs.                        *)

\* Token kinds of the sources the sequence parser is run over.
SeqKinds == {"(", ")", "]", ",", ":", ".", "x"}

\* What stands in an element slot of a generated list: an identifier, a
\* reserved identifier, a path cut short after its dot.
ElemShapes == {<<"x">>, <<"contract">>, <<"x", ".">>}

\* The list of the elements es, with a comma after element i when gap[i].
RECURSIVE ListBody(_, _)
ListBody(es, gap) ==
  IF es = <<>> THEN <<>>
  ELSE Head(es) \o (IF gap[1] THEN <<",">> ELSE <<>>)
       \o ListBody(Tail(es), [i \in 1..(Len(es) - 1) |-> gap[i + 1]])

\* Lists of at most MaxElems elements, opened by "(" or by nothing, closed
\* by ")" or "]", with every comma (also a trailing one) present or omitted.
ListInputs ==
  UNION {{open \o ListBody(es, gap) \o close :
            es \in [1..n -> ElemShapes], gap \in [1..n -> BOOLEAN],
            open \in {<<>>, <<"(">>}, close \in {<<")">>, <<"]">>}} :
         n \in 0..MaxElems}

SeqInputs == SeqsUpTo(SeqKinds, MaxSeqLen) \cup ListInputs

SeqSeps == {none, trailing_enforced(","), trailing_allowed(","),
            trailing_disallowed(","), trailing_disallowed(";")}

ElemParsers ==
  {"parse_ident", "parse_ident_any", "parse_path", "parse_ident_common"}

\* The calls made on the sequence parser with the element parser f.
CallsWith(f) ==
  {parse_seq_to_before_tokens(<<")", "]">>, sep, f) : sep \in SeqSeps}
  \cup {parse_seq_to_before_end("]", sep, f) : sep \in SeqSeps}
  \cup {parse_seq_to_end(ket, sep, f) : ket \in {")", "]"}, sep \in SeqSeps}
  \cup {parse_delim_seq("Parenthesis", sep, f) : sep \in SeqSeps}
  \cup {parse_paren_comma_seq(f)}

SeqCalls == UNION {CallsWith(f) : f \in ElemParsers}

InitSeq ==
  /\ \E kinds \in SeqInputs :
       /\ parser = new(Lex(kinds))
       /\ last = [op |-> "new", arg |-> kinds, res |-> TRUE,
                  pre |-> new(Lex(kinds)), panic |-> FALSE]
  /\ frame = NoFrame
  /\ scopes = <<>>

\* The call: the wrapper's expect(bra), line 510, then the loop is entered.
SeqCall ==
  /\ last.op = "new" /\ frame.pc = "idle"
  /\ \E call \in SeqCalls :
       LET b == IF call.bra = <<>> THEN Ret(parser, Ok(FALSE))
                ELSE expect(parser, call.bra[1])
       IN /\ parser' = b.p
          /\ frame' = IF b.r.tag = "Ok" THEN EnterLoop(call)
                      ELSE [EnterLoop(call) EXCEPT !.pc = "fail", !.exit = "bra",
                                                   !.err = b.r.err]
          /\ last' = [op |-> "call", arg |-> call, res |-> FALSE,
                      pre |-> parser, panic |-> FALSE]
  /\ UNCHANGED scopes

\* One pass of the loop.
SeqStep ==
  /\ frame.pc = "loop"
  /\ LET s == SeqPass(parser, frame)
     IN parser' = s.p /\ frame' = s.fr
  /\ UNCHANGED <<last, scopes>>

\* The call returns.
SeqReturn ==
  /\ frame.pc \in {"exit", "fail"}
  /\ frame' = [frame EXCEPT !.pc = "returned"]
  /\ LET r == SeqResult(parser, frame)
     IN /\ parser' = r.p
        /\ last' = [last EXCEPT !.op = frame.call.entry, !.res = r.r,
                                !.panic = (r.r.tag = "Panic")]
  /\ UNCHANGED scopes

NextSeq == SeqCall \/ SeqStep \/ SeqReturn

SpecSeq == InitSeq /\ [][NextSeq]_vars

\* The same calls, run to completion.  The return leaves last alone: what
\* the call returns is read from frame (exit tells how the loop was left).
SeqReturned ==
  /\ frame.pc \in {"exit", "fail"}
  /\ frame' = [frame EXCEPT !.pc = "returned"]
  /\ parser' = (SeqResult(parser, frame)).p
  /\ UNCHANGED <<last, scopes>>

NextSeqRun == SeqCall \/ SeqStep \/ SeqReturned

\* A pass of the loop is possible exactly when frame.pc is "loop", and it
\* changes frame.
InLoop == frame.pc = "loop"

\* The parser is synchronous and single-threaded: once a call is made, a
\* pass or a return that can be taken is taken.  The first conjunct is
\* WF_frame(SeqStep) with its ENABLED written out as InLoop.
SeqRunsOn ==
  /\ []<>(~InLoop) \/ []<><<InLoop>>_frame
  /\ WF_frame(SeqReturned)

SpecSeqFair == InitSeq /\ [][NextSeqRun]_vars /\ SeqRunsOn

----------------------------------------------------------------------------
(* The sequence parser called with an element parser that takes a single   *)
(* token through the reporters of the tracker, over the same sources.      *)

TokenElemParsers == {"expect", "expect_one_of", "eat_or_unexpected"}

TokenSeqCalls == UNION {CallsWith(f) : f \in TokenElemParsers}

\* The call: the wrapper's expect(bra), line 510, then the loop is entered.
TokenSeqCall ==
  /\ last.op = "new" /\ frame.pc = "idle"
  /\ \E call \in TokenSeqCalls :
       LET b == IF call.bra = <<>> THEN Ret(parser, Ok(FALSE))
                ELSE expect(parser, call.bra[1])
       IN /\ parser' = b.p
          /\ frame' = IF b.r.tag = "Ok" THEN EnterLoop(call)
                      ELSE [EnterLoop(call) EXCEPT !.pc = "fail", !.exit = "bra",
                                                   !.err = b.r.err]
          /\ last' = [op |-> "call", arg |-> call, res |-> FALSE,
                      pre |-> parser, panic |-> FALSE]
  /\ UNCHANGED scopes

NextTokenSeq == TokenSeqCall \/ SeqStep \/ SeqReturn

SpecTokenSeq == InitSeq /\ [][NextTokenSeq]_vars

----------------------------------------------------------------------------
(* Properties of the cursor and tracker API, checked under Spec.           *)

\* The cursor part of a parser: what an advance changes.
Cursor(p) == <<p.token, p.prev_token, p.tokens>>

\* The call under observation consumed a token.  For expect_one_of an Ok
\* on an inedible token consumes nothing.
Consumed ==
  \/ last.op \in {"bump", "bump_with"}
  \/ last.op \in {"eat", "eat_noexpect", "eat_keyword"} /\ last.res = TRUE
  \/ last.op = "expect" /\ last.res.tag = "Ok"
  \/ /\ last.op = "expect_one_of"
     /\ last.res.tag = "Ok"
     /\ Contains(last.arg[1], last.pre.token.kind)

\* C8: right after any advance of the cursor (bump, bump_with, or an eat,
\* eat_keyword, expect or expect_one_of that consumes) the expectation list
\* is empty, and in every state every entry of the list was pushed while
\* the present current token was current.
C8_AdvanceClearsExpected ==
  /\ Consumed => parser.expected_tokens = <<>>
  /\ Len(parser.exp_at) = Len(parser.expected_tokens)
  /\ \A i \in 1..Len(parser.exp_at) : parser.exp_at[i] = parser.token

\* C8 witness: an eat consumed a token while expectations were pending.
C8_Witness ==
  /\ last.op = "eat" /\ last.res = TRUE
  /\ last.pre.expected_tokens # <<>>
  /\ Cursor(parser) # Cursor(last.pre)

\* C9: check(kind) never advances the cursor; on a mismatch it appends
\* exactly one exact-token expectation for kind and returns false, on a
\* match it returns true and leaves the expectation list unchanged.
C9_CheckFrame ==
  last.op = "check" =>
    /\ Cursor(parser) = Cursor(last.pre)
    /\ last.pre.token.kind # last.arg =>
         /\ last.res = FALSE
         /\ parser.expected_tokens =
              Append(last.pre.expected_tokens, ExpToken(last.arg))
    /\ last.pre.token.kind = last.arg =>
         /\ last.res = TRUE
         /\ parser.expected_tokens = last.pre.expected_tokens

\* C9 witness: a check that missed, made with an expectation already pending.
C9_Witness ==
  /\ last.op = "check" /\ last.res = FALSE
  /\ Len(last.pre.expected_tokens) = 1
  /\ Len(parser.expected_tokens) = 2

\* C9 witness of the other case: a check that matched.
C9_WitnessMatch ==
  /\ last.op = "check" /\ last.res = TRUE
  /\ last.pre.expected_tokens # <<>>

\* C10 as claimed: check_keyword(kw) registers the keyword expectation only
\* when the current token is not that keyword, and nothing when it is.
C10_KeywordMirrorsCheck ==
  last.op = "check_keyword" =>
    /\ IsKeyword(last.pre.token, last.arg) =>
         parser.expected_tokens = last.pre.expected_tokens
    /\ ~IsKeyword(last.pre.token, last.arg) =>
         parser.expected_tokens =
           Append(last.pre.expected_tokens, ExpKeyword(last.arg))

\* C10 amended: check_keyword(kw) never advances the cursor, returns whether
\* the current token is that keyword, and appends exactly one keyword
\* expectation for kw in both cases, also when the token matches.
C10_KeywordAlwaysRegisters ==
  last.op = "check_keyword" =>
    /\ Cursor(parser) = Cursor(last.pre)
    /\ last.res = IsKeyword(last.pre.token, last.arg)
    /\ parser.expected_tokens =
         Append(last.pre.expected_tokens, ExpKeyword(last.arg))

\* C10 witness: check_keyword on a token that is the keyword.
C10_Witness ==
  /\ last.op = "check_keyword" /\ last.res = TRUE
  /\ Len(parser.expected_tokens) = Len(last.pre.expected_tokens) + 1

----------------------------------------------------------------------------
(* Properties of the sequence parser, checked under SpecSeq.               *)

\* The call has returned; TheCall is the call, Source the tokens the parser
\* was built from.
SeqDone == frame.pc = "returned"

TheCall == frame.call

Source ==
  IF last.pre.token.kind = "Eof" THEN <<>>
  ELSE <<last.pre.token>> \o last.pre.tokens

\* Where the elements start: after the opening token when the call expects one.
BodyStart == IF TheCall.bra = <<>> THEN 1 ELSE 2

\* The first token from BodyStart on that is neither an identifier nor a
\* comma (one past the end when there is none), and the tokens before it.
CloseAt ==
  LET stops == {c \in BodyStart..Len(Source) :
                  Source[c].kind \notin Symbols \cup {","}}
  IN IF stops = {} THEN Len(Source) + 1
     ELSE CHOOSE c \in stops : \A d \in stops : c <= d

Body == SubSeq(Source, BodyStart, CloseAt - 1)

\* The source is an opening token if the call expects one, then identifiers
\* and commas, then one of the call's terminators.
IsList ==
  /\ TheCall.bra # <<>> => Len(Source) >= 1 /\ Source[1].kind = TheCall.bra[1]
  /\ CloseAt <= Len(Source)
  /\ Contains(TheCall.kets, Source[CloseAt].kind)
  /\ Body # <<>> => IsIdent(Body[1])
  /\ \A i \in 1..(Len(Body) - 1) : ~(Body[i].kind = "," /\ Body[i + 1].kind = ",")

\* The element parser takes every identifier of the body without a
\* diagnostic: parse_ident and parse_path report a reserved one.
SilentIdents ==
  \A i \in 1..Len(Body) :
    IsIdent(Body[i]) =>
      TheCall.f = "parse_ident_any" \/ ~IsReserved(Body[i].kind, last.pre.in_yul)

\* What the element parser returns for each identifier of the body, in
\* source order: the identifier, or for parse_path the one-segment path.
BodyElements ==
  LET ids == SelectSeq(Body, IsIdent)
  IN [i \in 1..Len(ids) |->
        IF TheCall.f = "parse_path" THEN <<IdentOf(ids[i])>> ELSE IdentOf(ids[i])]

\* Where the identifiers of the body stand.
BodyIdentSpans ==
  LET ids == SelectSeq(Body, IsIdent) IN [i \in 1..Len(ids) |-> ids[i].span]

\* Identifiers of the body directly followed by another identifier.
OmittedCommas ==
  Cardinality({i \in 1..(Len(Body) - 1) : IsIdent(Body[i]) /\ IsIdent(Body[i + 1])})

TrailingComma == Body # <<>> /\ Body[Len(Body)].kind = ","

\* C1: for every parenthesized list of n >= 0 identifiers joined by single
\* commas, with no trailing comma, parse_paren_comma_seq with an element
\* parser that returns the identifier (parse_ident on identifiers that are
\* not reserved, parse_ident_any on any) returns exactly those identifiers
\* in source order with trailing = false, creates no diagnostic, and leaves
\* the cursor just past the closing parenthesis.
C1_ParenCommaRoundTrip ==
  ( /\ SeqDone /\ last.op = "parse_paren_comma_seq"
    /\ TheCall.f \in {"parse_ident", "parse_ident_any"}
    /\ IsList /\ SilentIdents /\ OmittedCommas = 0 /\ ~TrailingComma )
  => /\ last.res.tag = "Ok"
     /\ last.res.val.v = BodyElements
     /\ last.res.val.trailing = FALSE
     /\ parser.dcx = <<>>
     /\ parser.prev_token = Source[CloseAt]
     /\ parser.prev_token.kind = ")"
     /\ parser.token.kind = (IF CloseAt < Len(Source)
                             THEN Source[CloseAt + 1].kind ELSE "Eof")
     /\ Len(parser.tokens) = (IF CloseAt < Len(Source)
                              THEN Len(Source) - CloseAt - 1 ELSE 0)

\* C1 witness: a list of two identifiers with its comma was parsed.
C1_Witness ==
  /\ SeqDone /\ last.op = "parse_paren_comma_seq" /\ TheCall.f = "parse_ident"
  /\ IsList /\ SilentIdents /\ OmittedCommas = 0 /\ ~TrailingComma
  /\ Len(Body) = 3
  /\ last.res.tag = "Ok" /\ Len(last.res.val.v) = 2

\* C2: for a parenthesized comma list in which commas between adjacent
\* identifiers are omitted, with a comma policy that is not trailing-
\* enforced and an element parser that accepts bare identifiers, the
\* sequence parser succeeds, returns every identifier in source order, and
\* emits exactly one diagnostic per omitted comma (and creates no other).
C2_MissingSeparatorRecovery ==
  ( /\ SeqDone
    /\ TheCall.bra = <<"(">>
    /\ TheCall.sep \in {trailing_allowed(","), trailing_disallowed(",")}
    /\ IsList /\ SilentIdents /\ OmittedCommas >= 1 /\ ~TrailingComma )
  => /\ last.res.tag = "Ok"
     /\ last.res.val.v = BodyElements
     /\ Cardinality(Emitted(parser)) = OmittedCommas
     /\ Len(parser.dcx) = OmittedCommas
     /\ \A i \in 1..Len(parser.dcx) :
          /\ parser.dcx[i].msg.exp = <<ExpToken(")"), ExpToken(",")>>
          /\ parser.dcx[i].children = <<"missing ,">>

\* C2 witness: ( x x ) was parsed by parse_delim_seq.
C2_Witness ==
  /\ SeqDone /\ last.op = "parse_delim_seq"
  /\ TheCall.sep = trailing_disallowed(",") /\ TheCall.f = "parse_ident"
  /\ IsList /\ OmittedCommas = 1 /\ Len(Body) = 2
  /\ last.res.tag = "Ok" /\ Len(last.res.val.v) = 2
  /\ Cardinality(Emitted(parser)) = 1

\* C3: with a policy that allows a trailing separator, a list of n >= 1
\* elements whose last element is followed by one separator and then the
\* terminator succeeds with exactly the n elements and trailing = true, and
\* the element parser is invoked n times: not for an empty trailing element.
C3_TrailingAllowed ==
  ( /\ SeqDone
    /\ TheCall.sep \in {trailing_allowed(","), trailing_enforced(",")}
    /\ IsList /\ SilentIdents /\ OmittedCommas = 0 /\ TrailingComma )
  => /\ last.res.tag = "Ok"
     /\ last.res.val.v = BodyElements
     /\ last.res.val.trailing = TRUE
     /\ Len(frame.fcalls) = Len(BodyElements)
     /\ frame.fcalls = BodyIdentSpans
     /\ parser.dcx = <<>>

\* C3 witness: ( x , x , ) was parsed with trailing_allowed.
C3_Witness ==
  /\ SeqDone /\ TheCall.sep = trailing_allowed(",") /\ TheCall.bra = <<"(">>
  /\ IsList /\ OmittedCommas = 0 /\ TrailingComma /\ Len(Body) = 4
  /\ last.res.tag = "Ok" /\ last.res.val.trailing /\ Len(last.res.val.v) = 2

\* The diagnostic a failed call returned.
Failure == parser.dcx[last.res.err]

\* C4 as claimed: with the trailing-disallowed policy a list whose last
\* element is followed by a separator and then the terminator, as
\* ( x , y , ), fails hard, and the failure is raised at the stray comma:
\* the comma is the offending token of the failure.
C4_FailsAtStrayComma ==
  ( /\ SeqDone
    /\ TheCall.sep = trailing_disallowed(",")
    /\ IsList /\ SilentIdents /\ OmittedCommas = 0 /\ TrailingComma )
  => /\ last.res.tag = "Err"
     /\ Failure.span = Source[CloseAt - 1].span
     /\ Failure.msg.found = ","

\* C4 amended: with the trailing-disallowed policy such a list fails hard
\* with the element parser's own failure, raised at the terminator that
\* follows the stray comma: the comma itself has been consumed and is the
\* previous token, the terminator is the offending token and is still the
\* current one, and nothing is emitted.
C4_FailsAfterStrayComma ==
  ( /\ SeqDone
    /\ TheCall.sep = trailing_disallowed(",")
    /\ IsList /\ SilentIdents /\ OmittedCommas = 0 /\ TrailingComma )
  => /\ last.res.tag = "Err"
     /\ frame.exit = "element"
     /\ Failure.state = "live"
     /\ Failure.msg.what = "expected identifier"
     /\ Failure.span = Source[CloseAt].span
     /\ Failure.msg.found = Source[CloseAt].kind
     /\ parser.token = Source[CloseAt]
     /\ parser.prev_token = Source[CloseAt - 1]
     /\ Emitted(parser) = {}

\* C4 witness: ( x , x , ) failed under parse_paren_comma_seq.
C4_Witness ==
  /\ SeqDone /\ last.op = "parse_paren_comma_seq"
  /\ IsList /\ OmittedCommas = 0 /\ TrailingComma /\ Len(Body) = 4
  /\ last.res.tag = "Err"

\* C5 as claimed: with the trailing-enforced policy every successful
\* non-empty result has a separator consumed after its last element: a
\* last element directly followed by the terminator is never accepted.
C5_EnforcedNeedsTrailing ==
  ( /\ SeqDone
    /\ TheCall.sep = trailing_enforced(",")
    /\ last.res.tag = "Ok"
    /\ last.res.val.v # <<>> )
  => /\ last.res.val.trailing = TRUE
     /\ ~TheCall.to_end => parser.prev_token.kind = ","

\* C6 as claimed: when a separator is missing, the speculative element
\* parse fails, the current token is not a colon and the terminators are
\* not exactly the closing parenthesis, the parser emits the combined
\* diagnostic, stops, and returns the elements collected so far with the
\* recovered flag set to true.
C6_EarlyStopSetsRecovered ==
  (SeqDone /\ frame.exit = "emitted" /\ ~TheCall.to_end)
  => /\ last.res.tag = "Ok"
     /\ last.res.val.v = frame.v
     /\ Cardinality(Emitted(parser)) = 1
     /\ last.res.val.recovered = TRUE

\* The inner parse stopped early: after emitting the recovery diagnostic,
\* or by the closing-delimiter / end-of-input bailout.
StoppedEarly == frame.exit \in {"emitted", "bailout"}

\* C7 as claimed: parse_seq_to_end consumes the terminator only when the
\* inner parse ended at the terminator.  When the inner parse stopped early
\* it returns without consuming any further token; when it returns success
\* without an early stop the previous token is the terminator.
C7_ToEndLeavesTerminator ==
  [][ (frame.pc = "exit" /\ TheCall.to_end) =>
        /\ StoppedEarly => Cursor(parser') = Cursor(parser)
        /\ ~StoppedEarly => parser'.prev_token.kind = TheCall.kets[1] ]_vars

----------------------------------------------------------------------------
(* Further properties of the cursor and tracker API, checked under Spec.   *)

\* The call under observation is one of the unexpected-token reporters.
Reporter == last.op \in {"expect", "expect_one_of", "unexpected"}

\* C11 as claimed: every unexpected-token failure of expect, expect_one_of
\* or unexpected at a token that is not end-of-input records that token's
\* span, and such a call that finds the span of its current token already
\* recorded, and would fail again, panics and creates no second diagnostic.
C11_FailureRecordsSpan ==
  Reporter =>
    /\ (last.res.tag = "Err" /\ last.pre.token.kind # "Eof") =>
         parser.last_unexpected_token_span = <<last.pre.token.span>>
    /\ ( /\ last.pre.token.kind # "Eof"
         /\ last.pre.last_unexpected_token_span = <<last.pre.token.span>>
         /\ last.res.tag # "Ok" ) =>
         (last.panic /\ parser.dcx = <<>>)

----------------------------------------------------------------------------
(* Further properties of the sequence parser, checked under SpecSeq.       *)

\* The diagnostics of the call in each state.
WithState(st) == {i \in 1..Len(parser.dcx) : parser.dcx[i].state = st}

\* C12: when a sequence parse returns, every diagnostic created inside the
\* sequence parser and the identifier parser it called has exactly one
\* terminal outcome: it was emitted, or cancelled, or it is the failure
\* handed to the caller.  The returned failure is neither emitted nor
\* cancelled, and no other diagnostic is left without an outcome.
C12_OneTerminalOutcome ==
  (SeqDone /\ ~last.panic) =>
    /\ \A i \in 1..Len(parser.dcx) :
         parser.dcx[i].state \in {"live", "emitted", "cancelled"}
    /\ WithState("live") =
         (IF last.res.tag = "Err" THEN {last.res.err} ELSE {})

\* C12 witness: a parse that returned one diagnostic as its failure after
\* emitting one and cancelling another.
C12_Witness ==
  /\ SeqDone /\ ~last.panic
  /\ last.res.tag = "Err"
  /\ WithState("emitted") # {}
  /\ WithState("cancelled") # {}
  /\ WithState("live") = {last.res.err}

----------------------------------------------------------------------------
(* Construction and look-ahead, checked under Spec.                        *)

\* C13: after construction over any token sequence, which performs exactly
\* one advance, the current token is the first token of the sequence, or
\* end-of-input if the sequence is empty, the previous token is the dummy
\* placeholder, and the remaining tokens are the rest of the sequence.
C13_ConstructionAdvancesOnce ==
  last.op = "new" =>
    /\ parser.prev_token = TokenDUMMY
    /\ last.arg # <<>> =>
         /\ parser.token = Token(last.arg[1], 1)
         /\ parser.tokens = Tail(Lex(last.arg))
    /\ last.arg = <<>> =>
         /\ parser.token.kind = "Eof"
         /\ parser.tokens = <<>>
    /\ parser.expected_tokens = <<>>

\* C13 witness: a parser just built over a sequence of two tokens or more.
C13_Witness ==
  /\ last.op = "new" /\ Len(last.arg) >= 2
  /\ parser.token.kind = last.arg[1]
  /\ parser.prev_token.kind = "Dummy"
  /\ Len(parser.tokens) = Len(last.arg) - 1

\* C14: in every reachable cursor state look_ahead(0) is the current token,
\* look_ahead(n) for 1 <= n <= remaining length is the n-th of the remaining
\* tokens, and look_ahead(n) for every larger n is the end-of-input token;
\* the call changes neither the current token, the previous token, the
\* remaining tokens nor the expectation list.
C14_LookAhead ==
  last.op = "look_ahead" =>
    /\ last.arg = 0 => last.res = last.pre.token
    /\ (1 <= last.arg /\ last.arg <= Len(last.pre.tokens)) =>
         last.res = last.pre.tokens[last.arg]
    /\ last.arg > Len(last.pre.tokens) => last.res = TokenEOF
    /\ Cursor(parser) = Cursor(last.pre)
    /\ parser.expected_tokens = last.pre.expected_tokens

\* C14 witness: a look-ahead into the remaining tokens, made after an
\* advance and with an expectation pending.
C14_Witness ==
  /\ last.op = "look_ahead" /\ last.arg = 1
  /\ Len(last.pre.tokens) >= 1
  /\ last.pre.prev_token.kind # "Dummy"
  /\ last.pre.expected_tokens # <<>>
  /\ last.res = last.pre.tokens[1]

\* C14 witness of the other case: a look-ahead past the end.
C14_WitnessBeyond ==
  /\ last.op = "look_ahead"
  /\ last.arg = Len(last.pre.tokens) + 2
  /\ last.res.kind = "Eof"

----------------------------------------------------------------------------
(* The identifier and path parser and the context scopes driven by a       *)
(* caller: any call, in any order, at any nesting of in_yul / in_contract, *)
(* on a parser built from any short token sequence or dotted path.  last   *)
(* keeps the latest call.  A scope is entered and left in two steps, the   *)
(* calls made in between are its callback, and the callback's result is    *)
(* the result of its last call.                                            *)

\* Longest token sequence the identifier parser is run over exhaustively.
MaxIdentLen == 3
\* Most dots of a generated dotted path.
MaxDots == 2
\* Deepest nesting of the in_yul / in_contract scopes.
MaxDepth == 2

\* let old = std::mem::replace(&mut self.<flag>, true)
set_flag(p, flag) == [p EXCEPT ![flag] = TRUE]

\* A variant of the restoring assignment that clears the flag.
restore_flag_clear(p, flag, old) == [p EXCEPT ![flag] = FALSE]

\* self.<flag> = old
restore_flag(p, flag, old) == [p EXCEPT ![flag] = old]

\* Token kinds of the sources the identifier parser is driven over.
IdentKinds == {"x", "contract", "leave", ",", "."}

\* Identifiers of the generated dotted paths.
PathSymbols == {"x", "y", "contract"}

\* ids joined by dots.
Dotted(ids) ==
  [i \in 1..(2 * Len(ids) - 1) |->
     IF i % 2 = 1 THEN ids[(i + 1) \div 2] ELSE "."]

\* Dotted paths of up to MaxDots dots, alone or followed by a comma.
PathInputs ==
  UNION {{Dotted(ids) \o suffix : ids \in [1..k -> PathSymbols],
                                   suffix \in {<<>>, <<",">>}} :
         k \in 1..(MaxDots + 1)}

IdentInputs == SeqsUpTo(IdentKinds, MaxIdentLen) \cup PathInputs

ScopeFlags == {"in_yul", "in_contract"}

InitIdent ==
  /\ \E kinds \in IdentInputs :
       /\ parser = new(Lex(kinds))
       /\ last = [op |-> "new", arg |-> kinds, res |-> TRUE,
                  pre |-> new(Lex(kinds)), panic |-> FALSE]
  /\ frame = NoFrame
  /\ scopes = <<>>

\* A call of the identifier parser.
IdCall(op, arg, out) ==
  /\ parser' = out.p
  /\ last' = Called(op, arg, out, Fresh, FALSE)
  /\ UNCHANGED <<frame, scopes>>

DoParseIdent == IdCall("parse_ident", TRUE, parse_ident(Fresh))

DoParseIdentCommon ==
  IdCall("parse_ident_common", FALSE, parse_ident_common(Fresh, FALSE))

DoParseIdentAny == IdCall("parse_ident_any", TRUE, parse_ident_any(Fresh))

DoParsePath == IdCall("parse_path", TRUE, parse_path(Fresh))

DoParsePathAny == IdCall("parse_path_any", TRUE, parse_path_any(Fresh))

\* in_yul / in_contract up to the call of f: the flag is saved and set.
\* before is history: both flags as they were when the scope was entered.
DoEnterScope ==
  /\ Len(scopes) < MaxDepth
  /\ \E flag \in ScopeFlags :
       /\ scopes' = Append(scopes,
            [flag |-> flag, old |-> parser[flag],
             before |-> [in_yul |-> parser.in_yul,
                         in_contract |-> parser.in_contract]])
       /\ parser' = set_flag(Fresh, flag)
       /\ last' = [op |-> "enter", arg |-> flag, res |-> Ok(TRUE),
                   pre |-> Fresh, panic |-> FALSE]
  /\ UNCHANGED frame

\* in_yul / in_contract after f returned: the flag is restored and the
\* callback's result, a success or a failure, is handed on.
DoLeaveScope ==
  /\ scopes # <<>>
  /\ LET top == scopes[Len(scopes)]
     IN /\ parser' = restore_flag(parser, top.flag, top.old)
        /\ scopes' = SubSeq(scopes, 1, Len(scopes) - 1)
        /\ last' = [op |-> top.flag, arg |-> top, res |-> last.res,
                    pre |-> parser, panic |-> FALSE]
  /\ UNCHANGED frame

NextIdent ==
  \/ DoParseIdent
  \/ DoParseIdentCommon
  \/ DoParseIdentAny
  \/ DoParsePath
  \/ DoParsePathAny
  \/ DoEnterScope
  \/ DoLeaveScope

SpecIdent == InitIdent /\ [][NextIdent]_vars

----------------------------------------------------------------------------
(* Properties of the identifier and path parser, checked under SpecIdent.  *)

\* The cursor of p stands exactly one token further than that of q.
OneTokenPast(p, q) ==
  /\ p.prev_token = q.token
  /\ p.token.kind = look_ahead(q, 1).kind
  /\ p.tokens = (IF q.tokens = <<>> THEN <<>> ELSE Tail(q.tokens))

\* C15: with recovery enabled (parse_ident), when the current token is an
\* identifier that is reserved in the current mode, exactly one diagnostic
\* is created and it is emitted, that identifier is returned as the result,
\* and the cursor advances past it by exactly one token.
C15_ReservedIdentRecovered ==
  ( /\ last.op = "parse_ident"
    /\ IsIdent(last.pre.token)
    /\ IsReserved(last.pre.token.kind, last.pre.in_yul) )
  => /\ last.res = Ok(IdentOf(last.pre.token))
     /\ Len(parser.dcx) = 1
     /\ parser.dcx[1].state = "emitted"
     /\ parser.dcx[1].msg.what = "expected identifier"
     /\ parser.dcx[1].span = last.pre.token.span
     /\ OneTokenPast(parser, last.pre)

\* C15 witness: parse_ident on leave inside the Yul scope, where contract is
\* not reserved and leave is.
C15_Witness ==
  /\ last.op = "parse_ident"
  /\ last.pre.in_yul /\ last.pre.token.kind = "leave"
  /\ last.res.tag = "Ok" /\ last.res.val.name = "leave"
  /\ Emitted(parser) = {1}

\* C16: where the current token is a comma and the next token is an
\* identifier, parse_ident succeeds with that identifier, emits exactly one
\* diagnostic carrying the "remove this comma" help, raised at the comma,
\* and leaves the cursor just past the identifier: the comma and the
\* identifier are both consumed and nothing else.  Every diagnostic of the
\* call is emitted; there is a second one exactly when the identifier is
\* reserved.
C16_CommaElisionRecovered ==
  ( /\ last.op = "parse_ident"
    /\ last.pre.token.kind = ","
    /\ IsIdent(look_ahead(last.pre, 1)) )
  => /\ last.res = Ok(IdentOf(last.pre.tokens[1]))
     /\ parser.dcx[1].children = <<"remove this comma">>
     /\ parser.dcx[1].span = last.pre.token.span
     /\ parser.dcx[1].msg.found = ","
     /\ \A i \in 1..Len(parser.dcx) : parser.dcx[i].state = "emitted"
     /\ \A i \in 2..Len(parser.dcx) : parser.dcx[i].children = <<>>
     /\ Len(parser.dcx) =
          (IF IsReserved(last.pre.tokens[1].kind, last.pre.in_yul) THEN 2 ELSE 1)
     /\ parser.prev_token = last.pre.tokens[1]
     /\ parser.tokens = SubSeq(last.pre.tokens, 3, Len(last.pre.tokens))
     /\ parser.token.kind = look_ahead(last.pre, 2).kind

\* C16 witness: parse_ident on , x recovered x.
C16_Witness ==
  /\ last.op = "parse_ident"
  /\ last.pre.token.kind = "," /\ look_ahead(last.pre, 1).kind = "x"
  /\ last.res.tag = "Ok" /\ last.res.val.name = "x"
  /\ Emitted(parser) = {1}
  /\ parser.prev_token.kind = "x"

\* The tokens from the cursor of p on.
Ahead(p) == <<p.token>> \o p.tokens

\* The number of pairs of a dot and an identifier that follow the current
\* token of p.
DotPairs(p) ==
  LET s == Ahead(p)
      ok(j) == \A i \in 1..j : /\ 2 * i + 1 <= Len(s)
                               /\ s[2 * i].kind = "."
                               /\ IsIdent(s[2 * i + 1])
  IN CHOOSE j \in 0..Len(s) : ok(j) /\ ~ok(j + 1)

\* The current token of p is an identifier, and what follows its dotted
\* pairs is not a further dot.
IsDottedPath(p) ==
  /\ IsIdent(p.token)
  /\ LET after == 2 * DotPairs(p) + 2
     IN after <= Len(Ahead(p)) => Ahead(p)[after].kind # "."

\* Parsing one identifier, then k times consuming a dot and parsing one
\* identifier: the identifiers obtained, in order.
RECURSIVE StepwiseDots(_, _, _)
StepwiseNext(s, path, k) ==
  IF s.r.tag # "Ok" THEN s ELSE StepwiseDots(s.p, Append(path, s.r.val), k)

StepwiseDots(p, path, k) ==
  IF k = 0 THEN Ret(p, Ok(path))
  ELSE StepwiseNext(parse_ident((eat(p, ".")).p), path, k - 1)

StepwisePath(p, k) == StepwiseNext(parse_ident(p), <<>>, k)

\* parse_path returned what the stepwise parse s of k pairs gives.
AgreesWithStepwise(s, k) ==
  /\ last.res.tag = "Ok"
  /\ s.r.tag = "Ok"
  /\ Len(last.res.val) = k + 1
  /\ last.res.val = s.r.val
  /\ \A i \in 1..(k + 1) :
       last.res.val[i] = IdentOf(Ahead(last.pre)[2 * i - 1])
  /\ Cursor(parser) = Cursor(s.p)
  /\ parser.dcx = s.p.dcx

\* C17: parse_path over an identifier followed by k >= 0 pairs of a dot and
\* an identifier yields a path of exactly k + 1 segments, equal in order to
\* the identifiers obtained by parsing the first identifier and then k
\* times consuming a dot and parsing one identifier, and stops where that
\* stepwise parse stops; with k = 0 it is the single-segment path; and on
\* every success the current token is not a dot.
C17_PathIsRepeatedIdent ==
  last.op = "parse_path" =>
    /\ IsDottedPath(last.pre) =>
         AgreesWithStepwise(StepwisePath(last.pre, DotPairs(last.pre)),
                            DotPairs(last.pre))
    /\ last.res.tag = "Ok" => parser.token.kind # "."

\* C17 witness: a path of three segments was parsed.
C17_Witness ==
  /\ last.op = "parse_path"
  /\ IsDottedPath(last.pre) /\ DotPairs(last.pre) = 2
  /\ last.res.tag = "Ok" /\ Len(last.res.val) = 3

\* C17 witness of the other case: a single-segment path.
C17_WitnessSingle ==
  /\ last.op = "parse_path"
  /\ IsDottedPath(last.pre) /\ DotPairs(last.pre) = 0
  /\ last.res.tag = "Ok" /\ Len(last.res.val) = 1

\* The other flag.
OtherFlag(flag) == IF flag = "in_yul" THEN "in_contract" ELSE "in_yul"

\* C18: at every nesting depth of the in_yul and in_contract scopes, the
\* flag of every open scope is true while its callback runs; once a scope
\* returns, whether its callback's result is a success or a parse failure,
\* its flag has the value it had just before the scope was entered; and a
\* scope changes the other flag neither when it is entered nor when it
\* returns.
C18_ScopesRestoreFlags ==
  /\ \A i \in 1..Len(scopes) : parser[scopes[i].flag] = TRUE
  /\ last.op = "enter" =>
       parser[OtherFlag(last.arg)] = last.pre[OtherFlag(last.arg)]
  /\ last.op \in ScopeFlags =>
       /\ parser[last.op] = last.arg.before[last.op]
       /\ parser[OtherFlag(last.op)] = last.pre[OtherFlag(last.op)]
       /\ parser[OtherFlag(last.op)] = last.arg.before[OtherFlag(last.op)]

\* C18 witness: a Yul scope nested in a Yul scope returned a parse failure.
C18_Witness ==
  /\ last.op = "in_yul"
  /\ Len(scopes) = 1 /\ scopes[1].flag = "in_yul"
  /\ last.arg.before.in_yul = TRUE
  /\ last.res.tag = "Err"
  /\ parser.in_yul = TRUE

\* C18 witness of the other case: an outermost scope returned a success.
C18_WitnessSuccess ==
  /\ last.op = "in_contract"
  /\ scopes = <<>>
  /\ last.res.tag = "Ok"
  /\ parser.in_contract = FALSE

----------------------------------------------------------------------------
(* Failures of the sequence parser, checked under SpecSeq.                 *)

\* The diagnostic created last: the failure of the callback that ran last.
LastCreated == parser.dcx[Len(parser.dcx)]

\* C19: when a separator is missing and the speculative element parse
\* fails, if the current token is a colon or the terminators are exactly
\* the closing parenthesis, the sequence parser does not emit: it cancels
\* the speculative failure's own diagnostic, appends that failure's
\* children in order to the separator-expectation diagnostic, and returns
\* that combined diagnostic as the failure.  It emits and stops only when
\* neither condition holds.
C19_EscalatesUnemitted ==
  SeqDone =>
    /\ frame.exit \in {"colon", "paren"} =>
         /\ last.res.tag = "Err"
         /\ last.res.err < Len(parser.dcx)
         /\ Failure.state = "live"
         /\ Contains(Failure.msg.exp, ExpToken(TheCall.sep.sep[1]))
         /\ LastCreated.state = "cancelled"
         /\ Failure.children = LastCreated.children
         /\ \A i \in last.res.err..Len(parser.dcx) :
              parser.dcx[i].state = "emitted" =>
                parser.dcx[i].msg.what = "expected identifier"
         /\ frame.exit = "colon" <=> parser.token.kind = ":"
         /\ frame.exit = "paren" => TheCall.kets = <<")">>
    /\ frame.exit = "emitted" =>
         (parser.token.kind # ":" /\ TheCall.kets # <<")">>)

\* C19 witness: the terminators are the closing parenthesis and the
\* returned diagnostic carries the child of the cancelled failure.
C19_Witness ==
  /\ SeqDone /\ frame.exit = "paren"
  /\ last.res.tag = "Err"
  /\ Failure.children = <<"remove this comma">>
  /\ LastCreated.state = "cancelled"

\* C19 witness of the other case: the current token is a colon.
C19_WitnessColon ==
  /\ SeqDone /\ frame.exit = "colon"
  /\ TheCall.kets # <<")">>
  /\ last.res.tag = "Err" /\ Failure.state = "live"

\* C20: when the element callback fails in a regular element slot (the
\* first element, or after a separator was consumed), the sequence parser
\* returns that same failure at once: the failure is the diagnostic the
\* callback created last, still live and raised at the current token; the
\* sequence parser has emitted nothing but its earlier missing-separator
\* recoveries; and returning it invokes no callback, consumes no token and
\* touches no diagnostic.
C20_ElementFailurePropagates ==
  [][ (frame.pc = "fail" /\ frame.exit = "element") =>
        /\ frame.err = Len(parser.dcx)
        /\ LastCreated.state = "live"
        /\ LastCreated.msg.what = "expected identifier"
        /\ LastCreated.span = parser.token.span
        /\ \A i \in 1..Len(parser.dcx) :
             (parser.dcx[i].state = "emitted"
                /\ parser.dcx[i].msg.what # "expected identifier") =>
               parser.dcx[i].children # <<>>
        /\ last'.res = Err(frame.err)
        /\ parser' = parser
        /\ frame'.fcalls = frame.fcalls
        /\ frame'.v = frame.v ]_vars

\* C20 witness: the callback failed on its second invocation, after a
\* separator was consumed, and the call returned that failure.
C20_Witness ==
  /\ SeqDone /\ frame.exit = "element"
  /\ Len(frame.fcalls) = 2
  /\ parser.prev_token.kind = ","
  /\ last.res = Err(Len(parser.dcx))
  /\ LastCreated.state = "live"

\* C20 witness of the other case: the callback failed on the first element.
C20_WitnessFirst ==
  /\ SeqDone /\ frame.exit = "element"
  /\ Len(frame.fcalls) = 1
  /\ last.res.tag = "Err"

----------------------------------------------------------------------------
(* The bailout of the sequence parser, checked under SpecSeq.              *)

\* The current token is end-of-input or a closing delimiter, and none of
\* the terminators of the call.
AtForeignClose(p) ==
  /\ p.token.kind \in CloseDelims \cup {"Eof"}
  /\ ~Contains(TheCall.kets, p.token.kind)

\* The tokens a step consumes: those the cursor moved over.
StepConsumed ==
  SubSeq(<<parser.token>> \o parser.tokens, 1,
         Len(parser.tokens) - Len(parser'.tokens))

\* C21: whenever a pass of the loop starts (the start of an element slot)
\* on end-of-input or on a closing delimiter that is not a terminator, the
\* loop is left in that pass without invoking the element parser, without
\* consuming the token and without a diagnostic; the call then returns
\* success with the elements collected so far, still without consuming the
\* token.  No step of the sequence parser consumes a closing delimiter that
\* is not a terminator.
C21_BailoutLeavesToken ==
  [][ /\ (frame.pc = "loop" /\ AtForeignClose(parser)) =>
           /\ frame'.pc = "exit" /\ frame'.exit = "bailout"
           /\ frame'.fcalls = frame.fcalls
           /\ frame'.v = frame.v
           /\ Cursor(parser') = Cursor(parser)
           /\ parser'.dcx = parser.dcx
      /\ (frame.pc = "exit" /\ frame.exit = "bailout") =>
           /\ AtForeignClose(parser)
           /\ last'.res.tag = "Ok"
           /\ last'.res.val.v = frame.v
           /\ Cursor(parser') = Cursor(parser)
      /\ frame.pc \in {"loop", "exit", "fail"} =>
           \A i \in 1..Len(StepConsumed) :
             StepConsumed[i].kind \in CloseDelims =>
               Contains(TheCall.kets, StepConsumed[i].kind) ]_vars

\* C21 witness: a call that eats its terminator stopped on a closing
\* bracket that is not the terminator, after one element, and returned that
\* element with the bracket still current.
C21_Witness ==
  /\ SeqDone /\ frame.exit = "bailout"
  /\ TheCall.to_end /\ TheCall.kets = <<")">>
  /\ parser.token.kind = "]"
  /\ last.res.tag = "Ok" /\ Len(last.res.val.v) = 1
  /\ Len(frame.fcalls) = 1

\* C21 witness of the other case: the pass started on end-of-input.
C21_WitnessEof ==
  /\ SeqDone /\ frame.exit = "bailout"
  /\ parser.token.kind = "Eof"
  /\ last.res.tag = "Ok" /\ Len(last.res.val.v) = 2

----------------------------------------------------------------------------
(* The candidate list of an unexpected-token diagnostic, checked under     *)
(* Spec.                                                                   *)

\* The call under observation failed with a diagnostic that expect_one_of
\* built: expect takes that way only when an expectation is pending.
BuiltByExpectOneOf ==
  /\ last.op \in {"expect", "expect_one_of", "unexpected", "expect_keyword"}
  /\ last.res.tag = "Err"
  /\ last.op = "expect" => last.pre.expected_tokens # <<>>

\* The candidate list of that diagnostic.
Candidates == parser.dcx[last.res.err].msg.exp

\* C22 as claimed: in every unexpected-token diagnostic built by
\* expect_one_of the final candidate list is sorted by rendered text and
\* holds no two entries with the same rendered text, no exact-token entry
\* equal to the kind of the found token, and no keyword entry whose symbol
\* is the symbol of the found identifier.
C22_CandidatesDistinctByText ==
  BuiltByExpectOneOf =>
    /\ \A i \in 1..(Len(Candidates) - 1) :
         RenderRank(Candidates[i]) <= RenderRank(Candidates[i + 1])
    /\ \A i, j \in 1..Len(Candidates) :
         i # j => Render(Candidates[i]) # Render(Candidates[j])
    /\ \A i \in 1..Len(Candidates) :
         /\ ~(Candidates[i].tag = "Token"
                /\ Candidates[i].v = last.pre.token.kind)
         /\ ~(Candidates[i].tag = "Keyword"
                /\ last.pre.token.kind \in Symbols
                /\ Candidates[i].v = last.pre.token.kind)

----------------------------------------------------------------------------
(* The outcome of expect, checked under Spec.                              *)

\* What the same expect returns on the same parser with nothing expected.
ExpectOnEmpty ==
  expect([last.pre EXCEPT !.expected_tokens = <<>>, !.exp_at = <<>>], last.arg)

\* C23 as claimed: expect(tok) consumes exactly one token and returns
\* success when the kind of the current token is tok, and otherwise returns
\* a failure and leaves the current token, the previous token and the
\* remaining tokens unchanged; the outcome is the one the same call has
\* with an empty expectation list.
C23_ExpectOutcome ==
  last.op = "expect" =>
    /\ last.pre.token.kind = last.arg =>
         (last.res.tag = "Ok" /\ OneTokenPast(parser, last.pre))
    /\ last.pre.token.kind # last.arg =>
         (last.res.tag = "Err" /\ Cursor(parser) = Cursor(last.pre))
    /\ last.res.tag = ExpectOnEmpty.r.tag
    /\ Cursor(parser) = Cursor(ExpectOnEmpty.p)

----------------------------------------------------------------------------
(* Speculation with an element parser that rejects through the reporters   *)
(* of the tracker, checked under SpecTokenSeq.                             *)

\* A pass starts where a separator is due and missing, under a policy that
\* speculates, on a token the element parser of the call rejects.
SpeculatesOnReject ==
  /\ frame.pc = "loop" /\ ~frame.first
  /\ TheCall.sep.sep # <<>> /\ ~TheCall.sep.trailing_sep_required
  /\ parser.token.kind \notin CloseDelims \cup {"Eof", "x", TheCall.sep.sep[1]}
  /\ ~Contains(TheCall.kets, parser.token.kind)

\* C24 as claimed: during missing-separator recovery, when the element
\* parser invoked speculatively rejects the current token by calling
\* expect, expect_one_of or unexpected on it, the sequence parser takes the
\* failed-speculation path: it escalates (colon, or the terminators are the
\* closing parenthesis) or emits and stops.  No pass ends in the fault
\* "called unexpected twice on the same token".
C24_SpeculationNeverFaults ==
  [][ /\ SpeculatesOnReject =>
           frame'.exit \in {"colon", "paren", "emitted"}
      /\ frame.pc = "loop" => frame'.exit # "panic" ]_vars

----------------------------------------------------------------------------
(* Termination of the sequence parser, checked under SpecSeqFair: the      *)
(* element parsers of those calls return, and consume at least one token   *)
(* whenever they succeed.                                                  *)

\* The tokens not yet consumed, the current one included.
Remaining(p) == Len(p.tokens) + (IF p.token.kind = "Eof" THEN 0 ELSE 1)

\* C25: for every source, separator policy and terminator set a call that
\* was made eventually returns, with success or with a failure, and every
\* pass of the loop that does not leave the loop consumes at least one
\* token.
C25_SequenceParseReturns ==
  /\ (frame.pc # "idle") ~> (frame.pc = "returned" /\ frame.exit # "panic")
  /\ [][ (frame.pc = "loop" /\ frame'.pc = "loop") =>
           Remaining(parser') < Remaining(parser) ]_vars

\* C25 witness: the call returned success after two passes that stayed in
\* the loop, one of them a recovery from a missing separator, and a last
\* pass that left it at the terminator.
C25_Witness ==
  /\ frame.pc = "returned" /\ frame.passes = 3
  /\ frame.exit = "terminator" /\ Len(frame.v) = 2
  /\ WithState("emitted") # {}

----------------------------------------------------------------------------
(* The trailing flag of the sequence parser, checked under SpecSeq.        *)

\* parse_seq_to_before_tokens is returning (line 648), or the call has
\* returned.
SeqLeft == frame.pc \in {"exit", "returned"}

\* C26: whenever parse_seq_to_before_tokens returns with trailing = true,
\* a separator is configured and the policy allows a trailing one, the
\* previous token is that separator, the current token is one of the
\* terminators, and at least one element was collected; trailing is never
\* true under the no-separator and the trailing-disallowed policies.  The
\* wrappers hand the flag on unchanged; one that eats the terminator then
\* stands just past it.
C26_TrailingFlag ==
  /\ (SeqLeft /\ frame.trailing) =>
       /\ TheCall.sep.sep # <<>>
       /\ TheCall.sep.trailing_sep_allowed
       /\ frame.exit = "trailing"
       /\ Len(frame.v) >= 1
       /\ (frame.pc = "exit" \/ ~TheCall.to_end) =>
            /\ parser.prev_token.kind = TheCall.sep.sep[1]
            /\ Contains(TheCall.kets, parser.token.kind)
       /\ (frame.pc = "returned" /\ TheCall.to_end) =>
            parser.prev_token.kind = TheCall.kets[1]
  /\ (SeqDone /\ last.res.tag = "Ok") =>
       last.res.val.trailing = frame.trailing
  /\ (frame.pc # "idle"
        /\ (TheCall.sep.sep = <<>> \/ ~TheCall.sep.trailing_sep_allowed)) =>
       ~frame.trailing

\* C26 witness: parse_seq_to_before_end returned trailing = true under the
\* trailing-allowed policy, after two elements and their separators.
C26_Witness ==
  /\ SeqDone /\ ~TheCall.to_end
  /\ TheCall.sep = trailing_allowed(",")
  /\ last.res.tag = "Ok" /\ last.res.val.trailing
  /\ Len(frame.v) = 2
  /\ parser.prev_token.kind = "," /\ parser.token.kind = "]"

\* C26 witness of the other case: the policy forbids a trailing separator
\* and the source has one; the flag stays false.
C26_WitnessDisallowed ==
  /\ SeqDone /\ TheCall.sep = trailing_disallowed(",")
  /\ parser.prev_token.kind = "," /\ Contains(TheCall.kets, parser.token.kind)
  /\ ~frame.trailing

----------------------------------------------------------------------------
(* Look-ahead against consumption, checked under Spec: in each reachable   *)
(* state the parser is bumped n times and compared with what look_ahead    *)
(* returns in that state.                                                  *)

\* The parser after n calls of bump.
RECURSIVE BumpN(_, _)
BumpN(p, n) == IF n = 0 THEN p ELSE BumpN(bump(p), n - 1)

\* The distances compared: into the remaining tokens and past their end.
Distances == 1..(Len(parser.tokens) + MaxAhead)

\* The span of the last token ahead, the current one included.
LastSpan(p) ==
  IF p.tokens = <<>> THEN p.token.span ELSE p.tokens[Len(p.tokens)].span

\* C27 as claimed: in every reachable state and for every n >= 1, the kind
\* of look_ahead(n) is the kind of the current token after n further calls
\* of bump, after those n calls the previous token is the token
\* look_ahead(n - 1) returned before them, and the remaining tokens become
\* current in source order, none skipped and none repeated.
C27_LookAheadIsNextCurrent ==
  \A n \in Distances :
    /\ look_ahead(parser, n).kind = BumpN(parser, n).token.kind
    /\ BumpN(parser, n).prev_token = look_ahead(parser, n - 1)
    /\ n <= Len(parser.tokens) =>
         /\ BumpN(parser, n).token = parser.tokens[n]
         /\ BumpN(parser, n).tokens =
              SubSeq(parser.tokens, n + 1, Len(parser.tokens))

\* C27: in every reachable state and for every n >= 1, the kind of
\* look_ahead(n) is the kind of the current token after n further calls of
\* bump, and the remaining tokens become current in source order, none
\* skipped and none repeated.  After those n calls the previous token has
\* the kind of the token look_ahead(n - 1) returned before them, and is that
\* token as long as it is the current token or one of the remaining tokens;
\* past their end look_ahead returns the end-of-input token with the dummy
\* span, and the previous token is end-of-input with the span of the last
\* token ahead.
C27_LookAheadKindIsNextCurrent ==
  \A n \in Distances :
    /\ look_ahead(parser, n).kind = BumpN(parser, n).token.kind
    /\ BumpN(parser, n).prev_token.kind = look_ahead(parser, n - 1).kind
    /\ n - 1 <= Len(parser.tokens) =>
         BumpN(parser, n).prev_token = look_ahead(parser, n - 1)
    /\ n - 1 > Len(parser.tokens) =>
         /\ look_ahead(parser, n - 1) = TokenEOF
         /\ BumpN(parser, n).prev_token = Token("Eof", LastSpan(parser))
    /\ n <= Len(parser.tokens) =>
         /\ BumpN(parser, n).token = parser.tokens[n]
         /\ BumpN(parser, n).tokens =
              SubSeq(parser.tokens, n + 1, Len(parser.tokens))
    /\ n > Len(parser.tokens) => BumpN(parser, n).tokens = <<>>

\* C27 witness: two tokens remain, the caller looked two ahead, and two
\* calls of bump make that token current and the one before it previous.
C27_Witness ==
  /\ last.op = "look_ahead" /\ last.arg = 2
  /\ Len(parser.tokens) = 2
  /\ last.res = parser.tokens[2]
  /\ BumpN(parser, 2).token = last.res
  /\ BumpN(parser, 2).prev_token = parser.tokens[1]

\* C27 witness of the other case: after the first call of bump past the
\* last token, the previous token of the next one is not the token
\* look_ahead returned.
C27_WitnessBeyond ==
  /\ last.op = "look_ahead" /\ last.arg = 1
  /\ parser.tokens = <<>> /\ parser.token.kind # "Eof"
  /\ last.res = TokenEOF
  /\ BumpN(parser, 2).prev_token # last.res
  /\ BumpN(parser, 2).prev_token.kind = "Eof"

----------------------------------------------------------------------------
(* Hard failures of the identifier parser, checked under SpecIdent.        *)

\* The call under observation is one of the identifier parsers; its
\* argument is recover.
IdentCall == last.op \in {"parse_ident", "parse_ident_any", "parse_ident_common"}

\* The extraneous-comma case: a comma directly followed by an identifier.
CommaThenIdent(p) == p.token.kind = "," /\ IsIdent(look_ahead(p, 1))

\* Where the call fails hard: with recovery (parse_ident, parse_ident_any)
\* on a token that is no identifier and not the comma of the
\* extraneous-comma case; without recovery on a token that is no identifier
\* or is a reserved identifier.
HardFailureCase ==
  IF last.arg
  THEN ~IsIdent(last.pre.token) /\ ~CommaThenIdent(last.pre)
  ELSE \/ ~IsIdent(last.pre.token)
       \/ IsReserved(last.pre.token.kind, last.pre.in_yul)

\* C28: the identifier parsers return a failure exactly in the hard-failure
\* case, and whenever one does the cursor has not advanced (the current
\* token, the previous token and the remaining tokens are unchanged), the
\* call created one diagnostic, the returned one, raised at the current
\* token and still live, and no diagnostic has been emitted.
C28_HardFailureKeepsCursor ==
  IdentCall =>
    /\ last.res.tag = "Err" <=> HardFailureCase
    /\ last.res.tag = "Err" =>
         /\ Cursor(parser) = Cursor(last.pre)
         /\ parser.expected_tokens = last.pre.expected_tokens
         /\ Len(parser.dcx) = 1 /\ last.res.err = 1
         /\ parser.dcx[1].state = "live"
         /\ parser.dcx[1].span = last.pre.token.span
         /\ Emitted(parser) = {}

\* C28 witness: the recovery-disabled variant failed on a reserved
\* identifier after an earlier call had advanced the cursor.
C28_Witness ==
  /\ last.op = "parse_ident_common"
  /\ IsIdent(last.pre.token)
  /\ IsReserved(last.pre.token.kind, last.pre.in_yul)
  /\ last.pre.prev_token.kind # "Dummy"
  /\ last.res.tag = "Err"
  /\ parser.token = last.pre.token

\* C28 witness of another case: parse_ident failed on a comma that no
\* identifier follows.
C28_WitnessComma ==
  /\ last.op = "parse_ident"
  /\ last.pre.token.kind = "," /\ ~IsIdent(look_ahead(last.pre, 1))
  /\ last.res.tag = "Err"
  /\ Emitted(parser) = {}

\* C28 witness of another case: the recovery-disabled variant failed on the
\* comma of the extraneous-comma case, without consuming it.
C28_WitnessNoRecovery ==
  /\ last.op = "parse_ident_common"
  /\ CommaThenIdent(last.pre)
  /\ last.res.tag = "Err"
  /\ parser.token.kind = ","
  /\ parser.dcx[1].children = <<"remove this comma">>

====
